---- MODULE Spec2Model ----
(***************************************************************************)
(* Dual-tier browser storage (StorageManager, the browser storage wrapper) *)
(* and the points ledger of the auth store.                                *)
(*                                                                         *)
(* A storage key is a sequence of segments: the namespace prefix is one    *)
(* segment, so startsWith / replace on the prefix are operations on the    *)
(* sequence.  A tier is a partial function from keys to the strings it     *)
(* holds (getItem of an absent key is null: the key is not in the DOMAIN). *)
(***************************************************************************)
EXTENDS Integers, Sequences, FiniteSets, TLC

VARIABLES
    localStorage,     \* the primary tier
    sessionStorage,   \* the secondary tier
    result,           \* the last storage call and what it returned
    lastWrite,        \* per unprefixed name: the last StorageManager write of it
    dispatched,       \* the events the last call handed to window.dispatchEvent
    pending,          \* storage events queued for this window's listener
    user,             \* <<>> for null, <<u>> for the active user's snapshot
    users,            \* the directory: a record from ids to User objects
    isAuthenticated,
    savedUsers,       \* authManager: the persisted account rows
    credentials,      \* authManager: the ids that have a credential
    steps             \* the number of store operations called so far

storageVars == <<localStorage, sessionStorage, result, lastWrite, dispatched, pending>>
ledgerVars == <<user, users, isAuthenticated, savedUsers, credentials, steps>>
vars == <<localStorage, sessionStorage, result, lastWrite, dispatched, pending,
          user, users, isAuthenticated, savedUsers, credentials, steps>>

(* ------------------------------------------------------------------ *)
(* JavaScript values handed to / returned by the storage wrappers      *)
(* ------------------------------------------------------------------ *)
JsValue(t, b, n, s) == [type |-> t, b |-> b, n |-> n, s |-> s]
JsNull == JsValue("null", FALSE, 0, "")
JsUndefined == JsValue("undefined", FALSE, 0, "")
\* an object graph with a cycle: JSON.stringify throws on it
JsCyclic == JsValue("cyclic", FALSE, 0, "")
JsBool(b) == JsValue("boolean", b, 0, "")
JsNum(n) == JsValue("number", FALSE, n, "")
JsStr(s) == JsValue("string", FALSE, 0, s)

\* largest number among the stored JSON values
MaxNum == 0

\* the JSON-serializable values callers store
JsonValues == {JsNull, JsBool(FALSE), JsStr("")} \cup {JsNum(n) : n \in 0..MaxNum}
\* what a caller passes as `value: any`: a JSON value, or one that
\* JSON.stringify throws on
SetInputs == JsonValues \cup {JsCyclic}
\* caller-supplied defaults of get
Defaults == {JsNull, JsStr("dflt")}

\* JSON.stringify: the text of a JSON value; it throws on a cyclic value
stringifyThrows(v) == v.type = "cyclic"
JSONstringify(v) ==
    CASE v.type = "null" -> "null"
      [] v.type = "boolean" -> (IF v.b THEN "true" ELSE "false")
      [] v.type = "number" -> ToString(v.n)
      [] v.type = "string" -> "\"" \o v.s \o "\""

\* JSON.parse: the value whose text this is; a SyntaxError on any other text
parseThrows(text) == \A v \in JsonValues : JSONstringify(v) # text
JSONparse(text) == CHOOSE v \in JsonValues : JSONstringify(v) = text

(* ------------------------------------------------------------------ *)
(* Keys and tiers                                                      *)
(* ------------------------------------------------------------------ *)
storagePrefix == "pointmoney_"
persistentKeys == {"auth_credentials", "users", "point-storage", "withdrawal-storage"}

getKey(key) == <<storagePrefix>> \o key
startsWithPrefix(key) == Len(key) >= 1 /\ key[1] = storagePrefix

\* String.replace(prefix, ''): drops the first occurrence of the prefix
RECURSIVE replacePrefix(_)
replacePrefix(key) ==
    IF key = <<>> THEN <<>>
    ELSE IF Head(key) = storagePrefix THEN Tail(key)
    ELSE <<Head(key)>> \o replacePrefix(Tail(key))

isPersistentKey(key) == Len(key) = 1 /\ key[1] \in persistentKeys

\* unprefixed key names the callers of StorageManager use
Names == {<<"users">>, <<"tempFlag">>}
\* the key the callers of the browser storage wrapper use: no prefix
RawKeys == {<<"users">>}
\* every key of the two storage areas in the model
AllKeys == {getKey(k) : k \in Names} \cup RawKeys
\* what the callers of the browser storage wrapper store
BrowserInputs == {JsStr(""), JsCyclic}

has(st, key) == key \in DOMAIN st
\* `if (value)` on the result of getItem: present and not the empty string
truthy(st, key) == has(st, key) /\ st[key] # ""
setItem(st, key, text) == [k \in DOMAIN st \cup {key} |-> IF k = key THEN text ELSE st[k]]
removeItem(st, key) == [k \in DOMAIN st \ {key} |-> st[k]]
EmptyStorage == [k \in {} |-> ""]

\* the last storage call: the operation, what it returned (undefined for the
\* operations that return nothing) and whether its catch block ran
Returned(op, ret, caught) == [op |-> op, ret |-> ret, caught |-> caught]

(* ------------------------------------------------------------------ *)
(* history of StorageManager writes, per name                          *)
(* ------------------------------------------------------------------ *)
Never == [kind |-> "never", v |-> JsUndefined]
Removed == [kind |-> "removed", v |-> JsUndefined]
WasSet(v) == [kind |-> "set", v |-> v]
\* the primary entry was written by something else than a completed set/remove
Other == [kind |-> "other", v |-> JsUndefined]

\* the history after a step of another operation that made the primary tier `ls`
touched(ls) ==
    [k \in Names |->
        IF has(ls, getKey(k)) = has(localStorage, getKey(k))
           /\ (has(ls, getKey(k)) => ls[getKey(k)] = localStorage[getKey(k)])
        THEN lastWrite[k] ELSE Other]

(* ------------------------------------------------------------------ *)
(* StorageManager                                                      *)
(* ------------------------------------------------------------------ *)
\* get with `if (!parsed)` in the place of `parsed === null`
getResultFalsy(ls, key, defaultValue) ==
    LET prefixedKey == getKey(key) IN
    IF ~truthy(ls, prefixedKey) THEN defaultValue
    ELSE IF parseThrows(ls[prefixedKey]) THEN defaultValue
    ELSE LET parsed == JSONparse(ls[prefixedKey]) IN
         IF parsed.type # "string" \/ parsed.s = "" THEN defaultValue ELSE parsed

\* what get returns, computed on a primary tier
getResult(ls, key, defaultValue) ==
    LET prefixedKey == getKey(key) IN
    IF ~truthy(ls, prefixedKey) THEN defaultValue
    ELSE IF parseThrows(ls[prefixedKey]) THEN defaultValue
    ELSE LET parsed == JSONparse(ls[prefixedKey]) IN
         IF parsed = JsNull THEN defaultValue ELSE parsed

get(key, defaultValue) ==
    /\ result' = Returned("get", getResult(localStorage, key, defaultValue),
                          truthy(localStorage, getKey(key))
                              /\ parseThrows(localStorage[getKey(key)]))
    /\ UNCHANGED <<localStorage, sessionStorage, lastWrite>>
    /\ dispatched' = <<>> /\ UNCHANGED pending
    /\ UNCHANGED ledgerVars

\* quota: which setItem throws QuotaExceededError, if any
Quota == {"none", "local", "session"}

set(key, value, quota) ==
    LET prefixedKey == getKey(key)
        serializedValue == JSONstringify(value)
    IN
    /\ IF stringifyThrows(value) \/ quota = "local"
       THEN /\ result' = Returned("set", JsBool(FALSE), TRUE)
            /\ lastWrite' = [lastWrite EXCEPT ![key] = Other]
            /\ UNCHANGED <<localStorage, sessionStorage>>
       ELSE /\ localStorage' = setItem(localStorage, prefixedKey, serializedValue)
            /\ IF quota = "session"
               THEN /\ result' = Returned("set", JsBool(FALSE), TRUE)
                    /\ lastWrite' = [lastWrite EXCEPT ![key] = Other]
                    /\ UNCHANGED sessionStorage
               ELSE /\ sessionStorage' = setItem(sessionStorage, prefixedKey, serializedValue)
                    /\ result' = Returned("set", JsBool(TRUE), FALSE)
                    /\ lastWrite' = [lastWrite EXCEPT ![key] = WasSet(value)]
    /\ dispatched' = <<>> /\ UNCHANGED pending
    /\ UNCHANGED ledgerVars

remove(key) ==
    LET prefixedKey == getKey(key) IN
    /\ localStorage' = removeItem(localStorage, prefixedKey)
    /\ sessionStorage' = removeItem(sessionStorage, prefixedKey)
    /\ result' = Returned("remove", JsBool(TRUE), FALSE)
    /\ lastWrite' = [lastWrite EXCEPT ![key] = Removed]
    /\ dispatched' = <<>> /\ UNCHANGED pending
    /\ UNCHANGED ledgerVars

\* cleanNonPersistentData without the allowlist test: every key with the
\* prefix goes
cleanedAll(ls) ==
    [k \in {key \in DOMAIN ls : ~startsWithPrefix(key)} |-> ls[k]]

\* the primary tier after cleanNonPersistentData
cleaned(ls) ==
    LET keysToRemove == {key \in DOMAIN ls :
            startsWithPrefix(key) /\ ~isPersistentKey(replacePrefix(key))}
    IN [k \in DOMAIN ls \ keysToRemove |-> ls[k]]

\* a page load: the singleton is constructed, the constructor cleans
cleanNonPersistentData ==
    /\ localStorage' = cleaned(localStorage)
    /\ lastWrite' = touched(localStorage')
    /\ result' = Returned("cleanNonPersistentData", JsUndefined, FALSE)
    /\ UNCHANGED sessionStorage
    /\ dispatched' = <<>> /\ UNCHANGED pending
    /\ UNCHANGED ledgerVars

clearAll ==
    /\ localStorage' = [k \in {key \in DOMAIN localStorage : ~startsWithPrefix(key)}
                            |-> localStorage[k]]
    /\ lastWrite' = touched(localStorage')
    /\ result' = Returned("clearAll", JsUndefined, FALSE)
    /\ UNCHANGED sessionStorage
    /\ dispatched' = <<>> /\ UNCHANGED pending
    /\ UNCHANGED ledgerVars

\* first loop of sync: every truthy primary entry is written to the secondary
\* tier, whatever its key
syncToSession(ls, ss) ==
    [k \in DOMAIN ss \cup {key \in DOMAIN ls : truthy(ls, key)} |->
        IF truthy(ls, k) THEN ls[k] ELSE ss[k]]

\* the second loop of sync without the allowlist test
syncToLocalAll(ls, ss) ==
    [k \in DOMAIN ls \cup {key \in DOMAIN ss : truthy(ss, key)} |->
        IF truthy(ss, k) THEN ss[k] ELSE ls[k]]

\* second loop of sync, on the secondary tier the first loop left: the
\* truthy entries whose key, the prefix dropped, is persistent
syncToLocal(ls, ss) ==
    [k \in DOMAIN ls \cup {key \in DOMAIN ss :
            isPersistentKey(replacePrefix(key)) /\ truthy(ss, key)} |->
        IF has(ss, k) /\ isPersistentKey(replacePrefix(k)) /\ truthy(ss, k)
        THEN ss[k] ELSE ls[k]]

\* sync whose second loop reads the secondary tier as it was before the
\* first loop
syncedStale(ls, ss) == <<syncToLocal(ls, ss), syncToSession(ls, ss)>>

\* the two tiers after a sync that no setItem interrupts
synced(ls, ss) ==
    LET ss1 == syncToSession(ls, ss)
    IN <<syncToLocal(ls, ss1), ss1>>

\* a tier with only the writes of `next` to the keys in `done`: the loop
\* stopped when a setItem threw (the order of key(i) is the browser's)
partial(st, next, done) ==
    [k \in DOMAIN st \cup (DOMAIN next \cap done) |->
        IF k \in done /\ has(next, k) THEN next[k] ELSE st[k]]

\* the keys a loop writes with a text the target does not hold already
writes(st, next) == {k \in DOMAIN next : ~has(st, k) \/ st[k] # next[k]}

sync(quota) ==
    LET ss1 == syncToSession(localStorage, sessionStorage)
        ls1 == syncToLocal(localStorage, ss1)
    IN
    /\ \/ /\ quota = "none"
          /\ localStorage' = synced(localStorage, sessionStorage)[1]
          /\ sessionStorage' = synced(localStorage, sessionStorage)[2]
       \/ /\ quota = "session"
          /\ \E done \in SUBSET writes(sessionStorage, ss1) :
                /\ done # writes(sessionStorage, ss1)
                /\ sessionStorage' = partial(sessionStorage, ss1, done)
          /\ UNCHANGED localStorage
       \/ /\ quota = "local"
          /\ sessionStorage' = ss1
          /\ \E done \in SUBSET writes(localStorage, ls1) :
                /\ done # writes(localStorage, ls1)
                /\ localStorage' = partial(localStorage, ls1, done)
    /\ lastWrite' = touched(localStorage')
    /\ result' = Returned("sync", JsUndefined, quota # "none")
    /\ dispatched' = <<>> /\ UNCHANGED pending
    /\ UNCHANGED ledgerVars

(* ------------------------------------------------------------------ *)
(* storage events and the listener of useStorageSync                   *)
(* ------------------------------------------------------------------ *)
\* a StorageEvent: key is <<>> for null (the event of clear()), newValue is
\* <<>> for null and <<text>> otherwise, storageArea is "null" when it is
\* neither of the two areas
StorageEvent(key, newValue, storageArea) ==
    [key |-> key, newValue |-> newValue, storageArea |-> storageArea]
Areas == {"localStorage", "sessionStorage"}

\* the listener writing to the area the event came from
handledOrigin(ls, ss, e) ==
    IF e.key # <<>> /\ e.storageArea \in Areas
    THEN IF e.storageArea = "localStorage"
         THEN <<IF e.newValue = <<>> THEN removeItem(ls, e.key)
                ELSE setItem(ls, e.key, e.newValue[1]), ss>>
         ELSE <<ls, IF e.newValue = <<>> THEN removeItem(ss, e.key)
                    ELSE setItem(ss, e.key, e.newValue[1])>>
    ELSE <<ls, ss>>

\* the two tiers after handleStorage(e) ran to its end
handled(ls, ss, e) ==
    IF e.key # <<>> /\ e.storageArea \in Areas
    THEN IF e.storageArea = "localStorage"
         THEN <<ls, IF e.newValue = <<>> THEN removeItem(ss, e.key)
                    ELSE setItem(ss, e.key, e.newValue[1])>>
         ELSE <<IF e.newValue = <<>> THEN removeItem(ls, e.key)
                ELSE setItem(ls, e.key, e.newValue[1]), ss>>
    ELSE <<ls, ss>>

\* whether otherStorage.setItem of handleStorage(e) is the setItem that throws
handlerThrows(e, quota) ==
    /\ e.key # <<>> /\ e.newValue # <<>>
    /\ \/ e.storageArea = "localStorage" /\ quota = "session"
       \/ e.storageArea = "sessionStorage" /\ quota = "local"

(* ------------------------------------------------------------------ *)
(* the browser storage wrapper                                         *)
(* ------------------------------------------------------------------ *)
\* storage.sync of the wrapper, uninterrupted: both loops copy every truthy
\* entry
browserSynced(ls, ss) ==
    LET ss1 == syncToSession(ls, ss)
    IN <<syncToSession(ss1, ls), ss1>>

browserSync(quota) ==
    LET ss1 == syncToSession(localStorage, sessionStorage)
        ls1 == syncToSession(ss1, localStorage)
    IN
    /\ \/ /\ quota = "none"
          /\ localStorage' = browserSynced(localStorage, sessionStorage)[1]
          /\ sessionStorage' = browserSynced(localStorage, sessionStorage)[2]
       \/ /\ quota = "session"
          /\ \E done \in SUBSET writes(sessionStorage, ss1) :
                /\ done # writes(sessionStorage, ss1)
                /\ sessionStorage' = partial(sessionStorage, ss1, done)
          /\ UNCHANGED localStorage
       \/ /\ quota = "local"
          /\ sessionStorage' = ss1
          /\ \E done \in SUBSET writes(localStorage, ls1) :
                /\ done # writes(localStorage, ls1)
                /\ localStorage' = partial(localStorage, ls1, done)
    /\ lastWrite' = touched(localStorage')
    /\ result' = Returned("storage.sync", JsBool(quota = "none"), quota # "none")
    /\ dispatched' = <<>> /\ UNCHANGED pending
    /\ UNCHANGED ledgerVars

\* dispatchEvent calls the listener of useStorageSync before it returns
browserSet(key, value, quota) ==
    LET serializedValue == JSONstringify(value)
        ls1 == setItem(localStorage, key, serializedValue)
        ss1 == setItem(sessionStorage, key, serializedValue)
        event == StorageEvent(key, <<serializedValue>>, "localStorage")
    IN
    /\ IF stringifyThrows(value) \/ quota = "local"
       THEN /\ result' = Returned("storage.set", JsBool(FALSE), TRUE)
            /\ dispatched' = <<>>
            /\ UNCHANGED <<localStorage, sessionStorage>>
       ELSE IF quota = "session"
       THEN /\ localStorage' = ls1
            /\ result' = Returned("storage.set", JsBool(FALSE), TRUE)
            /\ dispatched' = <<>>
            /\ UNCHANGED sessionStorage
       ELSE /\ localStorage' = handled(ls1, ss1, event)[1]
            /\ sessionStorage' = handled(ls1, ss1, event)[2]
            /\ dispatched' = <<event>>
            /\ result' = Returned("storage.set", JsBool(TRUE), FALSE)
    /\ lastWrite' = touched(localStorage')
    /\ UNCHANGED pending
    /\ UNCHANGED ledgerVars

browserRemove(key) ==
    /\ localStorage' = removeItem(localStorage, key)
    /\ sessionStorage' = removeItem(sessionStorage, key)
    /\ lastWrite' = touched(localStorage')
    /\ result' = Returned("storage.remove", JsBool(TRUE), FALSE)
    /\ dispatched' = <<>> /\ UNCHANGED pending
    /\ UNCHANGED ledgerVars

(* ------------------------------------------------------------------ *)
(* events from other documents, and their handling                     *)
(*                                                                     *)
(* localStorage is shared with the other tabs of the origin and         *)
(* sessionStorage with the same-origin frames of the tab: when one of   *)
(* them changes an area, the area changes at once and the browser       *)
(* queues a storage event for this window's listener.                   *)
(* ------------------------------------------------------------------ *)
\* the most events that wait for the listener
MaxPending == 2
\* the key other documents write, and the texts they store
EventKeys == {getKey(k) : k \in Names}
EventTexts == {JSONstringify(JsBool(FALSE)), JSONstringify(JsStr(""))}

otherDocumentSetItem(area, key, text) ==
    /\ Len(pending) < MaxPending
    /\ IF area = "localStorage"
       THEN /\ ~(has(localStorage, key) /\ localStorage[key] = text)
            /\ localStorage' = setItem(localStorage, key, text)
            /\ UNCHANGED sessionStorage
       ELSE /\ ~(has(sessionStorage, key) /\ sessionStorage[key] = text)
            /\ sessionStorage' = setItem(sessionStorage, key, text)
            /\ UNCHANGED localStorage
    /\ pending' = Append(pending, StorageEvent(key, <<text>>, area))
    /\ lastWrite' = touched(localStorage')
    /\ result' = Returned("otherDocument", JsUndefined, FALSE)
    /\ dispatched' = <<>>
    /\ UNCHANGED ledgerVars

otherDocumentRemoveItem(area, key) ==
    /\ Len(pending) < MaxPending
    /\ IF area = "localStorage"
       THEN /\ has(localStorage, key)
            /\ localStorage' = removeItem(localStorage, key)
            /\ UNCHANGED sessionStorage
       ELSE /\ has(sessionStorage, key)
            /\ sessionStorage' = removeItem(sessionStorage, key)
            /\ UNCHANGED localStorage
    /\ pending' = Append(pending, StorageEvent(key, <<>>, area))
    /\ lastWrite' = touched(localStorage')
    /\ result' = Returned("otherDocument", JsUndefined, FALSE)
    /\ dispatched' = <<>>
    /\ UNCHANGED ledgerVars

\* clear() of another document: the event has key null and newValue null
otherDocumentClear(area) ==
    /\ Len(pending) < MaxPending
    /\ IF area = "localStorage"
       THEN /\ localStorage # EmptyStorage
            /\ localStorage' = EmptyStorage
            /\ UNCHANGED sessionStorage
       ELSE /\ sessionStorage # EmptyStorage
            /\ sessionStorage' = EmptyStorage
            /\ UNCHANGED localStorage
    /\ pending' = Append(pending, StorageEvent(<<>>, <<>>, area))
    /\ lastWrite' = touched(localStorage')
    /\ result' = Returned("otherDocument", JsUndefined, FALSE)
    /\ dispatched' = <<>>
    /\ UNCHANGED ledgerVars

\* a 'storage' event that some script dispatched on window with no
\* storageArea: nothing was written
syntheticEvent(key, newValue) ==
    /\ Len(pending) < MaxPending
    /\ pending' = Append(pending, StorageEvent(key, newValue, "null"))
    /\ result' = Returned("otherDocument", JsUndefined, FALSE)
    /\ dispatched' = <<>>
    /\ UNCHANGED <<localStorage, sessionStorage, lastWrite>>
    /\ UNCHANGED ledgerVars

\* the listener is called with the oldest waiting event; an exception of
\* otherStorage.setItem leaves the listener with nothing written
handleStorage(quota) ==
    /\ pending # <<>>
    /\ LET e == Head(pending) IN
       IF handlerThrows(e, quota)
       THEN /\ result' = Returned("handleStorage", JsUndefined, TRUE)
            /\ UNCHANGED <<localStorage, sessionStorage>>
       ELSE /\ localStorage' = handled(localStorage, sessionStorage, e)[1]
            /\ sessionStorage' = handled(localStorage, sessionStorage, e)[2]
            /\ result' = Returned("handleStorage", JsUndefined, FALSE)
    /\ pending' = Tail(pending)
    /\ lastWrite' = touched(localStorage')
    /\ dispatched' = <<>>
    /\ UNCHANGED ledgerVars

EventNext ==
    \/ \E area \in Areas, key \in EventKeys, text \in EventTexts :
            otherDocumentSetItem(area, key, text)
    \/ \E area \in Areas, key \in EventKeys : otherDocumentRemoveItem(area, key)
    \/ \E area \in Areas : otherDocumentClear(area)
    \/ \E key \in EventKeys, newValue \in {<<>>} \cup {<<t>> : t \in EventTexts} :
            syntheticEvent(key, newValue)
    \/ \E quota \in Quota : handleStorage(quota)

StorageInit ==
    /\ localStorage = EmptyStorage
    /\ sessionStorage = EmptyStorage
    /\ result = Returned("none", JsUndefined, FALSE)
    /\ lastWrite = [k \in Names |-> Never]
    /\ dispatched = <<>>
    /\ pending = <<>>

StorageNext ==
    \/ \E key \in Names, d \in Defaults : get(key, d)
    \/ \E key \in Names, value \in SetInputs, quota \in Quota : set(key, value, quota)
    \/ \E key \in Names : remove(key)
    \/ cleanNonPersistentData
    \/ clearAll
    \/ \E quota \in Quota : sync(quota)
    \/ \E quota \in Quota : browserSync(quota)
    \/ \E key \in RawKeys, value \in BrowserInputs, quota \in Quota :
            browserSet(key, value, quota)
    \/ \E key \in RawKeys : browserRemove(key)


(* ------------------------------------------------------------------ *)
(* The auth store: account directory and points ledger                 *)
(*                                                                     *)
(* A User object is a record holding the fields the object has: a      *)
(* field the object lacks reads as undefined.  Of the User fields the  *)
(* model keeps id, points, totalEarned, status, lastLogin, avatarUrl   *)
(* and name; joinedAt, role and the other profile fields are copied by *)
(* every operation and read by none.  customIcon / updateIcon touch no *)
(* account and are left out.                                           *)
(* ------------------------------------------------------------------ *)
\* a JavaScript number: an integer or NaN
Num(n) == [nan |-> FALSE, n |-> n]
NaN == [nan |-> TRUE, n |-> 0]

hasField(o, f) == f \in DOMAIN o
\* {...a, ...b}
spread(a, b) == [f \in DOMAIN a \cup DOMAIN b |-> IF f \in DOMAIN b THEN b[f] ELSE a[f]]
\* {}
EmptyObject == [f \in {} |-> ""]

\* a + b where a is a field that may be missing and b a number argument
plus(o, f, b) == IF hasField(o, f) /\ ~o[f].nan THEN Num(o[f].n + b) ELSE NaN
\* a > o.f: false when o.f is undefined or NaN
greater(a, o, f) == hasField(o, f) /\ ~o[f].nan /\ a > o[f].n
\* Math.max(0, a)
MathMax0(a) == IF a > 0 THEN a ELSE 0

\* login ids the callers use
Ids == {"u1", "u2"}
\* the property key an id makes: undefined becomes the key "undefined"
keyOf(o) == IF hasField(o, "id") THEN o.id ELSE "undefined"

\* largest magnitude of a points argument
MaxAmount == 2
Amounts == (0 - MaxAmount)..MaxAmount
\* largest magnitude of totalEarned the model follows
MaxEarned == 3
\* longest sequence of store operations the model follows
MaxSteps == 5
\* new Date(): one of MaxTime instants
MaxTime == 1
Times == 1..MaxTime
ProfileNames == {"n1", "n2"}
AvatarUrls == {"a1"}

\* one more store operation, while the model follows the run
tick == steps < MaxSteps /\ steps' = steps + 1

null == <<>>
\* users[id] = u
put(dir, id, u) == [k \in DOMAIN dir \cup {id} |-> IF k = id THEN u ELSE dir[k]]
\* users[id], or {} when there is none (the spread of undefined)
entry(dir, id) == IF id \in DOMAIN dir THEN dir[id] ELSE EmptyObject
EmptyDirectory == [k \in {} |-> EmptyObject]

\* totalEarned stays within the range the model follows
inRange(u) == hasField(u, "totalEarned") /\ ~u.totalEarned.nan
                => (u.totalEarned.n <= MaxEarned /\ u.totalEarned.n >= 0 - MaxEarned)

\* authManager.saveUser: the row is stored under the user's id
saveUser(u) == savedUsers' = put(savedUsers, keyOf(u), u)
\* authManager.getUsers: the persisted rows
getUsers == savedUsers

\* the account login makes of users[userData.id]
loggedIn(dir, id, now) == spread(entry(dir, id), [lastLogin |-> now])

login(id, now) ==
    LET updatedUser == loggedIn(users, id, now) IN
    /\ user' = <<updatedUser>>
    /\ users' = put(users, id, updatedUser)
    /\ isAuthenticated' = TRUE
    /\ saveUser(updatedUser)
    /\ UNCHANGED credentials
    /\ tick /\ UNCHANGED storageVars

logout ==
    /\ user' = null
    /\ isAuthenticated' = FALSE
    /\ UNCHANGED <<users, savedUsers, credentials>>
    /\ tick /\ UNCHANGED storageVars

updateProfile(updates) ==
    /\ user # null
    /\ LET updatedUser == spread(entry(users, keyOf(user[1])), updates) IN
       /\ user' = <<updatedUser>>
       /\ users' = put(users, keyOf(user[1]), updatedUser)
       /\ saveUser(updatedUser)
    /\ UNCHANGED <<isAuthenticated, credentials>>
    /\ tick /\ UNCHANGED storageVars

updateAvatar(avatarUrl) ==
    /\ user # null
    /\ LET updatedUser == spread(entry(users, keyOf(user[1])), [avatarUrl |-> avatarUrl]) IN
       /\ user' = <<updatedUser>>
       /\ users' = put(users, keyOf(user[1]), updatedUser)
       /\ saveUser(updatedUser)
    /\ UNCHANGED <<isAuthenticated, credentials>>
    /\ tick /\ UNCHANGED storageVars

\* the account updatePoints makes of the active user's directory entry
pointsUpdated(u, points) ==
    spread(u, [points |-> Num(points), totalEarned |-> plus(u, "totalEarned", points)])

\* reading .totalEarned of a missing directory entry throws: nothing is set
updatePoints(points) ==
    /\ user # null
    /\ keyOf(user[1]) \in DOMAIN users
    /\ LET updatedUser == pointsUpdated(users[keyOf(user[1])], points) IN
       /\ inRange(updatedUser)
       /\ user' = <<updatedUser>>
       /\ users' = put(users, keyOf(user[1]), updatedUser)
       /\ saveUser(updatedUser)
    /\ UNCHANGED <<isAuthenticated, credentials>>
    /\ tick /\ UNCHANGED storageVars

\* updateUserPoints adding the difference to totalEarned whether or not the
\* balance rises
userPointsUpdatedAlways(currentUser, points) ==
    spread(currentUser,
        [points |-> Num(MathMax0(points)),
         totalEarned |-> plus(currentUser, "totalEarned",
            IF hasField(currentUser, "points") /\ ~currentUser.points.nan
            THEN points - currentUser.points.n ELSE 0)])

\* the account updateUserPoints makes of currentUser
userPointsUpdated(currentUser, points) ==
    spread(currentUser,
        [points |-> Num(MathMax0(points)),
         totalEarned |-> plus(currentUser, "totalEarned",
            IF greater(points, currentUser, "points")
            THEN points - currentUser.points.n ELSE 0)])

updateUserPoints(userId, points) ==
    /\ userId \in DOMAIN users
    /\ LET updatedUser == userPointsUpdated(users[userId], points) IN
       /\ inRange(updatedUser)
       /\ users' = put(users, userId, updatedUser)
       /\ user' = IF user # null /\ hasField(user[1], "id") /\ user[1].id = userId
                  THEN <<updatedUser>> ELSE user
       /\ saveUser(updatedUser)
    /\ UNCHANGED <<isAuthenticated, credentials>>
    /\ tick /\ UNCHANGED storageVars

\* the account registerUser makes of userData
registered(loginId, name) ==
    [name |-> name, id |-> loginId, points |-> Num(0), status |-> "active",
     totalEarned |-> Num(0)]

registerUser(loginId, name) ==
    LET newUser == registered(loginId, name) IN
    /\ credentials' = credentials \cup {loginId}
    /\ saveUser(newUser)
    /\ users' = put(users, newUser.id, newUser)
    /\ UNCHANGED <<user, isAuthenticated>>
    /\ tick /\ UNCHANGED storageVars

reset ==
    /\ credentials' = {}
    /\ user' = null
    /\ users' = getUsers
    /\ isAuthenticated' = FALSE
    /\ UNCHANGED savedUsers
    /\ tick /\ UNCHANGED storageVars

LedgerInit ==
    /\ savedUsers = EmptyDirectory
    /\ credentials = {}
    /\ user = null
    /\ users = getUsers
    /\ isAuthenticated = FALSE
    /\ steps = 0

LedgerNext ==
    \/ \E id \in Ids, now \in Times : login(id, now)
    \/ logout
    \/ \E name \in ProfileNames : updateProfile([name |-> name])
    \/ \E avatarUrl \in AvatarUrls : updateAvatar(avatarUrl)
    \/ \E points \in Amounts : updatePoints(points)
    \/ \E userId \in Ids, points \in Amounts : updateUserPoints(userId, points)
    \/ \E loginId \in Ids, name \in ProfileNames : registerUser(loginId, name)
    \/ reset

Init == StorageInit /\ LedgerInit
Next == StorageNext \/ EventNext \/ LedgerNext
Spec == Init /\ [][Next]_vars

\* The storage calls, the ledger and the storage events are each checked
\* with the others at rest.
SpecStorage == Init /\ [][StorageNext]_vars
SpecLedger == Init /\ [][LedgerNext]_vars
SpecEvents == Init /\ [][EventNext]_vars

(* ------------------------------------------------------------------ *)
(* Properties of the storage tiers                                     *)
(* ------------------------------------------------------------------ *)

\* C1 (as claimed): get(k, d) returns the value of the most recent completed
\* set(k, v), for every JSON-serializable v, null included, and d after a
\* remove or when k was never set.
C1_GetReturnsLastSet ==
    \A k \in Names, d \in Defaults :
        /\ (lastWrite[k].kind = "set" /\ lastWrite[k].v \in JsonValues)
              => getResult(localStorage, k, d) = lastWrite[k].v
        /\ lastWrite[k].kind \in {"never", "removed"}
              => getResult(localStorage, k, d) = d

\* C1 (amended): get(k, d) returns the value v of the most recent completed
\* set(k, v) for every JSON-serializable v other than null (false, 0 and the
\* empty string included); after set(k, null) it returns d, as it does after
\* remove(k) and when k was never set.
C1_GetReturnsLastSetUnlessNull ==
    \A k \in Names, d \in Defaults :
        /\ (lastWrite[k].kind = "set" /\ lastWrite[k].v \in JsonValues \ {JsNull})
              => getResult(localStorage, k, d) = lastWrite[k].v
        /\ (lastWrite[k].kind = "set" /\ lastWrite[k].v = JsNull)
              => getResult(localStorage, k, d) = d
        /\ lastWrite[k].kind \in {"never", "removed"}
              => getResult(localStorage, k, d) = d

\* a get has just returned the empty string that the last set stored
C1_Witness ==
    /\ result = Returned("get", JsStr(""), FALSE)
    /\ lastWrite[<<"users">>] = WasSet(JsStr(""))
    /\ lastWrite[<<"tempFlag">>] = WasSet(JsNull)

\* C2: sync is idempotent: right after a sync that no storage error cut
\* short, a second sync would leave both tiers exactly as they are.
C2_SyncIdempotent ==
    (result.op = "sync" /\ ~result.caught)
        => synced(localStorage, sessionStorage) = <<localStorage, sessionStorage>>

\* a sync has just restored the persistent entry to the primary tier while
\* the ephemeral entry stays in the secondary tier only
C2_Witness ==
    /\ result = Returned("sync", JsUndefined, FALSE)
    /\ lastWrite[<<"users">>] = Other
    /\ has(localStorage, getKey(<<"users">>))
    /\ has(sessionStorage, getKey(<<"tempFlag">>))
    /\ ~has(localStorage, getKey(<<"tempFlag">>))

\* C3 (as claimed): a sync, of the StorageManager or of the browser storage
\* wrapper, writes an entry that only the secondary tier held to the primary
\* tier exactly when its key, the prefix dropped, is persistent; an ephemeral
\* one is never written to the primary tier.
C3_SyncRestoresOnlyPersistent ==
    [][(result'.op \in {"sync", "storage.sync"} /\ ~result'.caught) =>
        \A key \in DOMAIN sessionStorage \ DOMAIN localStorage :
            (has(localStorage', key) /\ localStorage'[key] = sessionStorage[key])
                <=> isPersistentKey(replacePrefix(key))]_vars
(* ------------------------------------------------------------------ *)
(* Properties of the ledger                                            *)
(* ------------------------------------------------------------------ *)
\* the integer a numeric field holds, when it holds one
isInt(u, f) == hasField(u, f) /\ ~u[f].nan
\* an account as registerUser creates them, stored under its own id
isAccount(dir, id) ==
    /\ id \in DOMAIN dir
    /\ hasField(dir[id], "id") /\ dir[id].id = id
    /\ isInt(dir[id], "points") /\ isInt(dir[id], "totalEarned")
    /\ hasField(dir[id], "status")

\* C4 (as claimed): in every reachable state every account of the directory,
\* and the active user's snapshot, has a balance (points) >= 0.
C4_BalanceNonNegative ==
    /\ \A k \in DOMAIN users : isAccount(users, k) => users[k].points.n >= 0
    /\ (user # null /\ isAccount(users, keyOf(user[1]))
            /\ isInt(user[1], "points")) => user[1].points.n >= 0

\* C5 (as claimed): no step of an operation other than reset lowers the
\* lifetimeEarned (totalEarned) of an account.
C5_LifetimeEarnedNeverDecreases ==
    [][~reset =>
        \A k \in DOMAIN users :
            (k \in DOMAIN users' /\ isInt(users[k], "totalEarned")
                /\ isInt(users'[k], "totalEarned"))
            => users'[k].totalEarned.n >= users[k].totalEarned.n]_vars

\* C6 (as claimed): whenever an active user is set, the directory holds an
\* account registered under the active user's id.
C6_ActiveUserIsRegistered ==
    (user # null \/ isAuthenticated)
        => /\ user # null
           /\ hasField(user[1], "id")
           /\ isAccount(users, user[1].id)

\* what the specification gives for setAbsoluteBalance on an account with an
\* integer balance and an integer lifetimeEarned
C7_Claimed(u, amount) ==
    LET clamped == MathMax0(amount) IN
    spread(u, [points |-> Num(clamped),
               totalEarned |-> IF clamped > u.points.n
                               THEN Num(u.totalEarned.n + (clamped - u.points.n))
                               ELSE u.totalEarned])

\* C7 (as claimed): updateUserPoints(id, amount) on an existing account sets
\* the balance to max(0, amount) and raises lifetimeEarned by
\* max(0, amount) - oldBalance when that is positive, and not otherwise; from
\* a fresh account the amounts 100, 40, 90 give (100,100), (40,100), (90,150).
C7_SetAbsoluteBalance ==
    [][\A userId \in Ids, amount \in Amounts :
        (updateUserPoints(userId, amount)
            /\ isInt(users[userId], "points") /\ isInt(users[userId], "totalEarned"))
        => /\ users'[userId] = C7_Claimed(users[userId], amount)
           /\ LET a0 == registered("u1", "n1")
                  a1 == userPointsUpdated(a0, 100)
                  a2 == userPointsUpdated(a1, 40)
                  a3 == userPointsUpdated(a2, 90)
              IN /\ <<a1.points, a1.totalEarned>> = <<Num(100), Num(100)>>
                 /\ <<a2.points, a2.totalEarned>> = <<Num(40), Num(100)>>
                 /\ <<a3.points, a3.totalEarned>> = <<Num(90), Num(150)>>]_vars

\* C8 (as claimed): with an active user, updatePoints(delta) sets the active
\* account's balance to max(0, oldBalance + delta) and its lifetimeEarned to
\* the old one + delta, in the directory entry and in the snapshot.
C8_ApplyDeltaToActive ==
    [][\A delta \in Amounts :
        (updatePoints(delta)
            /\ isInt(users[keyOf(user[1])], "points")
            /\ isInt(users[keyOf(user[1])], "totalEarned"))
        => LET old == users[keyOf(user[1])]
               new == spread(old, [points |-> Num(MathMax0(old.points.n + delta)),
                                   totalEarned |-> Num(old.totalEarned.n + delta)])
           IN users'[keyOf(user[1])] = new /\ user' = <<new>>]_vars

\* C9 (as claimed): registerUser with an id the directory holds changes
\* nothing (directory, active user, credentials); with a new id it inserts an
\* account with balance 0, lifetimeEarned 0 and status active.
C9_RegisterRejectsDuplicate ==
    [][\A loginId \in Ids, name \in ProfileNames :
        registerUser(loginId, name)
        => IF isAccount(users, loginId)
           THEN UNCHANGED <<users, user, isAuthenticated, credentials>>
           ELSE loginId \notin DOMAIN users
                => /\ DOMAIN users' = DOMAIN users \cup {loginId}
                   /\ \A k \in DOMAIN users : users'[k] = users[k]
                   /\ users'[loginId].points = Num(0)
                   /\ users'[loginId].totalEarned = Num(0)
                   /\ users'[loginId].status = "active"]_vars

\* C10 (as claimed): login with an id the directory lacks changes neither the
\* directory nor the active user nor the authenticated flag; with an id it
\* holds, it makes that account the active user and changes only that
\* account's lastLogin.
C10_LoginRequiresAccount ==
    [][\A id \in Ids, now \in Times :
        login(id, now)
        => IF id \notin DOMAIN users
           THEN UNCHANGED <<users, user, isAuthenticated>>
           ELSE /\ users' = put(users, id, spread(users[id], [lastLogin |-> now]))
                /\ user' = <<users'[id]>>
                /\ isAuthenticated']_vars

(* ------------------------------------------------------------------ *)
(* Properties of failed writes                                         *)
(* ------------------------------------------------------------------ *)

\* C11 (as claimed): whenever StorageManager.set returns false, on a value
\* that cannot be serialized or on a setItem that throws, both tiers hold
\* exactly what they held before the call.
C11_FailedSetChangesNothing ==
    [][\A key \in Names, value \in SetInputs, quota \in Quota :
        (set(key, value, quota) /\ result'.ret = JsBool(FALSE))
            => UNCHANGED <<localStorage, sessionStorage>>]_vars

\* C12 (as claimed): when the value serializes and the primary setItem
\* succeeds but the secondary setItem throws, set still returns true and the
\* primary tier holds the new text.
C12_SecondaryFailureStillTrue ==
    [][\A key \in Names, value \in JsonValues :
        set(key, value, "session")
            => /\ result'.ret = JsBool(TRUE)
               /\ localStorage' = setItem(localStorage, getKey(key), JSONstringify(value))]_vars

\* C13: a call of updateUserPoints (setAbsoluteBalance), with any integer
\* amount and from any reachable state of an account, a negative balance
\* included, never lowers the account's lifetimeEarned (totalEarned): it is
\* non-decreasing from call to call, in the directory and in the active
\* snapshot the call refreshes.
C13_SetAbsoluteNeverLowersEarned ==
    [][\A userId \in Ids, amount \in Amounts :
        (updateUserPoints(userId, amount) /\ isAccount(users, userId))
            => /\ isAccount(users', userId)
               /\ users'[userId].totalEarned.n >= users[userId].totalEarned.n
               /\ (user' # null /\ keyOf(user'[1]) = userId)
                    => user'[1].totalEarned = users'[userId].totalEarned]_vars

\* updateUserPoints has lowered a balance it had raised before: the balance
\* is back at 0 and the lifetimeEarned keeps what was earned
C13_Witness ==
    /\ isAccount(users, "u1")
    /\ users["u1"].points = Num(0)
    /\ users["u1"].totalEarned = Num(MaxAmount)
    /\ user = null

(* ------------------------------------------------------------------ *)
(* Properties of the start-up purge, sync and clearAll                 *)
(* ------------------------------------------------------------------ *)

\* C14: cleanNonPersistentData removes from the primary tier exactly the
\* keys that start with the prefix and whose name after the prefix is not in
\* the allowlist, keeps every other primary entry with its value, leaves the
\* secondary tier as it is, and a second purge right after it would change
\* nothing.
C14_PurgeExact ==
    [][result'.op = "cleanNonPersistentData" =>
        /\ DOMAIN localStorage' =
              {key \in DOMAIN localStorage :
                  ~(key[1] = storagePrefix /\ Tail(key) \notin {<<n>> : n \in persistentKeys})}
        /\ \A key \in DOMAIN localStorage' : localStorage'[key] = localStorage[key]
        /\ sessionStorage' = sessionStorage
        /\ cleaned(localStorage') = localStorage']_vars

\* a purge has just removed pointmoney_tempFlag from the primary tier; the
\* persistent pointmoney_users and the key without prefix are still there,
\* and the secondary tier still holds pointmoney_tempFlag
C14_Witness ==
    /\ result.op = "cleanNonPersistentData"
    /\ lastWrite[<<"tempFlag">>] = Other
    /\ ~has(localStorage, getKey(<<"tempFlag">>))
    /\ has(localStorage, getKey(<<"users">>))
    /\ has(localStorage, <<"users">>)
    /\ has(sessionStorage, getKey(<<"tempFlag">>))

\* C18 (as claimed): after a StorageManager sync that no tier error cut
\* short, every primary entry with the prefix is in the secondary tier with
\* the same text, every persistent key with the prefix that either tier holds
\* has the same text in both, no key was deleted from either tier, and the
\* only keys sync wrote are keys with the prefix.
C18_SyncWritesOnlyNamespaced ==
    [][(result'.op = "sync" /\ ~result'.caught) =>
        /\ \A key \in DOMAIN localStorage' :
              startsWithPrefix(key)
                  => has(sessionStorage', key) /\ sessionStorage'[key] = localStorage'[key]
        /\ \A key \in DOMAIN localStorage' \cup DOMAIN sessionStorage' :
              (startsWithPrefix(key) /\ isPersistentKey(Tail(key)))
                  => /\ has(localStorage', key) /\ has(sessionStorage', key)
                     /\ localStorage'[key] = sessionStorage'[key]
        /\ DOMAIN localStorage \subseteq DOMAIN localStorage'
        /\ DOMAIN sessionStorage \subseteq DOMAIN sessionStorage'
        /\ \A key \in AllKeys :
              (\/ has(localStorage', key) # has(localStorage, key)
               \/ has(sessionStorage', key) # has(sessionStorage, key)
               \/ (has(localStorage, key) /\ localStorage'[key] # localStorage[key])
               \/ (has(sessionStorage, key) /\ sessionStorage'[key] # sessionStorage[key]))
                  => startsWithPrefix(key)]_vars

\* C20: clearAll removes every key with the prefix from the primary tier,
\* keeps the other primary entries and leaves the secondary tier as it is;
\* and a sync that follows it (no tier error cutting it short) puts every
\* persistent key with the prefix that the secondary tier held back into the
\* primary tier with the secondary tier's text, while the ephemeral keys
\* with the prefix stay absent from the primary tier.
C20_ClearAllThenSync ==
    [][/\ result'.op = "clearAll" =>
            /\ sessionStorage' = sessionStorage
            /\ DOMAIN localStorage' = {key \in DOMAIN localStorage : key[1] # storagePrefix}
            /\ \A key \in DOMAIN localStorage' : localStorage'[key] = localStorage[key]
       /\ (result.op = "clearAll" /\ result'.op = "sync" /\ ~result'.caught) =>
            \A key \in DOMAIN sessionStorage :
                key[1] = storagePrefix =>
                    IF Tail(key) \in {<<n>> : n \in persistentKeys}
                    THEN has(localStorage', key) /\ localStorage'[key] = sessionStorage[key]
                    ELSE ~has(localStorage', key)]_vars

\* clearAll has just emptied the primary tier of its prefixed keys: the
\* secondary tier still holds the persistent and the ephemeral entry, and the
\* primary tier keeps its key without prefix
C20_Witness ==
    /\ result.op = "clearAll"
    /\ has(sessionStorage, getKey(<<"users">>))
    /\ has(sessionStorage, getKey(<<"tempFlag">>))
    /\ DOMAIN localStorage = {<<"users">>}

(* ------------------------------------------------------------------ *)
(* Properties of the active snapshot                                   *)
(* ------------------------------------------------------------------ *)

\* C19 (as claimed): in every reachable state with an active user, the
\* directory holds an entry under the snapshot's id and the snapshot has the
\* same balance (points) and lifetimeEarned (totalEarned) as that entry.
C19_SnapshotEqualsDirectory ==
    (user # null /\ hasField(user[1], "id")) =>
        /\ user[1].id \in DOMAIN users
        /\ hasField(users[user[1].id], "points")
        /\ users[user[1].id].points = user[1].points
        /\ users[user[1].id].totalEarned = user[1].totalEarned

(* ------------------------------------------------------------------ *)
(* Properties of the storage events                                    *)
(* ------------------------------------------------------------------ *)

\* C16 (as claimed): every successful set and every successful remove, of
\* the StorageManager and of the browser storage wrapper, hands a change
\* event for its key to window.dispatchEvent before it returns: newValue is
\* the serialized value for a set and null for a remove (the events of one
\* key are then published in the order of the calls).
C16_EveryWritePublishes ==
    [][/\ \A key \in Names, value \in JsonValues :
            set(key, value, "none")
                => dispatched' = <<StorageEvent(getKey(key), <<JSONstringify(value)>>,
                                                "localStorage")>>
       /\ \A key \in Names :
            remove(key)
                => dispatched' = <<StorageEvent(getKey(key), <<>>, "localStorage")>>
       /\ \A key \in RawKeys, value \in BrowserInputs \cap JsonValues :
            browserSet(key, value, "none")
                => dispatched' = <<StorageEvent(key, <<JSONstringify(value)>>,
                                                "localStorage")>>
       /\ \A key \in RawKeys :
            browserRemove(key)
                => dispatched' = <<StorageEvent(key, <<>>, "localStorage")>>]_vars

\* C15: the listener, called with an event {key, newValue, storageArea} and
\* no setItem throwing: when storageArea is one of the two areas and key is
\* set, it writes newValue under key into the other area, or removes key
\* from the other area when newValue is null, and leaves the origin area and
\* every other key as they are; when storageArea is neither area, or key is
\* null, it changes neither area.  Handling takes the event off the queue
\* and publishes or queues no further event: no mirroring step follows from
\* it.
C15_HandlerMirrorsToOtherTier ==
    [][(result'.op = "handleStorage" /\ ~result'.caught) =>
        LET e == Head(pending)
            origin == IF e.storageArea = "localStorage" THEN localStorage ELSE sessionStorage
            origin1 == IF e.storageArea = "localStorage" THEN localStorage' ELSE sessionStorage'
            other == IF e.storageArea = "localStorage" THEN sessionStorage ELSE localStorage
            other1 == IF e.storageArea = "localStorage" THEN sessionStorage' ELSE localStorage'
        IN
        /\ IF e.storageArea \in Areas /\ e.key # <<>>
           THEN /\ origin1 = origin
                /\ IF e.newValue # <<>>
                   THEN /\ DOMAIN other1 = DOMAIN other \cup {e.key}
                        /\ other1[e.key] = e.newValue[1]
                   ELSE DOMAIN other1 = DOMAIN other \ {e.key}
                /\ \A k \in DOMAIN other1 \ {e.key} : other1[k] = other[k]
           ELSE UNCHANGED <<localStorage, sessionStorage>>
        /\ pending' = Tail(pending)
        /\ dispatched' = <<>>]_vars

\* the listener has just mirrored a text of pointmoney_users that another
\* document stored in the primary tier into the secondary tier, which keeps
\* its other entry; only the primary tier has been changed again since
C15_Witness ==
    /\ result = Returned("handleStorage", JsUndefined, FALSE)
    /\ has(sessionStorage, getKey(<<"users">>))
    /\ has(sessionStorage, getKey(<<"tempFlag">>))
    /\ ~has(localStorage, getKey(<<"users">>))
    /\ pending = <<StorageEvent(getKey(<<"users">>), <<>>, "localStorage")>>

\* C17 (as claimed): events are handled after other writes may have
\* happened; right after the listener handled an event for key k that came
\* from area T, the other area's entry for k is T's entry for k at that
\* moment (present with the same text, or absent in both), not the text the
\* event carried.
C17_HandlerUsesCurrentOrigin ==
    [][(result'.op = "handleStorage" /\ ~result'.caught
            /\ Head(pending).storageArea \in Areas /\ Head(pending).key # <<>>) =>
        LET k == Head(pending).key IN
        /\ has(localStorage', k) = has(sessionStorage', k)
        /\ has(localStorage', k) => localStorage'[k] = sessionStorage'[k]]_vars
====
